---------------------------- MODULE Spec2Model ----------------------------
(***************************************************************************)
(* Model of converter/convert.py: the batch converter that expands glob    *)
(* patterns, reads each matched Deepgram JSON response and writes an .srt  *)
(* file at a path derived from the input path.                             *)
(*                                                                         *)
(* Strings are sequences of one-character strings, so that str.replace     *)
(* and pathlib's parsing are computed character by character.              *)
(***************************************************************************)
EXTENDS Integers, Sequences, FiniteSets, TLC

(***************************************************************************)
(* Bounds of the model.                                                    *)
(***************************************************************************)
\* longest command line (number of glob arguments) explored
MaxPatterns == 2
\* a path of the path-derivation check is a concatenation of at most
\* MaxPieces pieces
MaxPieces == 3

(***************************************************************************)
(* String helpers.                                                         *)
(***************************************************************************)
\* the literal of line 31
Marker == <<"_", "r", "e", "s", "p", "o", "n", "s", "e">>

\* the literal of line 33
SrtSuffix == <<".", "s", "r", "t">>

Sep == "/"

StartsWith(s, p) ==
    /\ Len(p) <= Len(s)
    /\ SubSeq(s, 1, Len(p)) = p

Drop(s, n) == SubSeq(s, n + 1, Len(s))

\* str.replace(old, ""): every non-overlapping occurrence of old, scanning
\* from the left, is removed; the result is not scanned again.
RECURSIVE Replace(_, _)
Replace(s, old) ==
    IF Len(s) < Len(old) THEN s
    ELSE IF StartsWith(s, old) THEN Replace(Drop(s, Len(old)), old)
    ELSE <<Head(s)>> \o Replace(Tail(s), old)

\* str.lstrip("/")
RECURSIVE LStripSep(_)
LStripSep(s) ==
    IF s # <<>> /\ Head(s) = Sep THEN LStripSep(Tail(s)) ELSE s

\* str.split("/")
RECURSIVE Split(_)
Split(s) ==
    IF \A k \in 1..Len(s) : s[k] # Sep THEN <<s>>
    ELSE LET k == CHOOSE j \in 1..Len(s) :
                      s[j] = Sep /\ \A m \in 1..(j - 1) : s[m] # Sep
         IN  <<SubSeq(s, 1, k - 1)>> \o Split(Drop(s, k))

\* sep.join(parts)
RECURSIVE Join(_)
Join(parts) ==
    IF parts = <<>> THEN <<>>
    ELSE IF Len(parts) = 1 THEN parts[1]
    ELSE parts[1] \o <<Sep>> \o Join(Tail(parts))

\* str.rfind("."): 0-based index of the last dot, -1 when there is none
RFindDot(name) ==
    IF \A k \in 1..Len(name) : name[k] # "." THEN -1
    ELSE (CHOOSE j \in 1..Len(name) :
              name[j] = "." /\ \A m \in (j + 1)..Len(name) : name[m] # ".") - 1

(***************************************************************************)
(* pathlib.PurePosixPath, as far as line 33 uses it.                       *)
(***************************************************************************)
\* splitroot: one leading slash or three and more give the root "/",
\* exactly two give "//"
PathRoot(s) ==
    LET n == Len(s) - Len(LStripSep(s))
    IN  IF n = 0 THEN <<>> ELSE IF n = 2 THEN <<Sep, Sep>> ELSE <<Sep>>

\* parse_parts: the components after the root, empty ones and "." dropped
PathParts(s) ==
    SelectSeq(Split(LStripSep(s)), LAMBDA x : x # <<>> /\ x # <<".">>)

\* PurePath.suffix of a final component
PathSuffix(name) ==
    LET k == RFindDot(name)
    IN  IF 0 < k /\ k < Len(name) - 1 THEN Drop(name, k) ELSE <<>>

\* str(PurePath): root + "/".join(parts), "." for the empty path
PathStr(root, parts) ==
    IF root = <<>> /\ parts = <<>> THEN <<".">> ELSE root \o Join(parts)

ValueError == <<"ValueError">>

\* str(Path(s).with_suffix(".srt")); ValueError when the path has no name
WithSuffix(s) ==
    LET root  == PathRoot(s)
        parts == PathParts(s)
    IN  IF parts = <<>> THEN ValueError
        ELSE LET name == parts[Len(parts)]
                 old  == PathSuffix(name)
                 new  == SubSeq(name, 1, Len(name) - Len(old)) \o SrtSuffix
             IN  PathStr(root, SubSeq(parts, 1, Len(parts) - 1) \o <<new>>)

\* lines 31-33: the output path of an input path
OutputPath(file) == WithSuffix(Replace(file, Marker))


(***************************************************************************)
(* The file system: the entries of the working directory.                  *)
(***************************************************************************)
AJson     == <<"a", ".", "j", "s", "o", "n">>
ASrt      == <<"a", ".", "s", "r", "t">>
AResponse == <<"a">> \o Marker \o <<".", "j", "s", "o", "n">>
BJson     == <<"b", ".", "j", "s", "o", "n">>
BSrt      == <<"b", ".", "s", "r", "t">>

Names == {AJson, ASrt, AResponse, BJson, BSrt}

\* the entries a directory holds, and those the program can create in it
\* (the output paths of the entries it holds)
Listed(fsys) ==
    LET held == {n \in Names : fsys[n] # "absent"}
    IN  held \cup ({OutputPath(n) : n \in held} \cap Names)

\* os.scandir yields a directory's entries in an order the file system
\* chooses: any order of the entries, each entry once.
RECURSIVE DirOrders(_)
DirOrders(entries) ==
    IF entries = {} THEN {<<>>}
    ELSE UNION {{<<n>> \o q : q \in DirOrders(entries \ {n})} : n \in entries}

\* What an entry holds.  "dir": a directory.  "badutf8": bytes that are not
\* UTF-8.  "badjson": text that is not JSON.  "rejected": JSON the converter
\* refuses.  "doc1", "doc2": Deepgram responses.  "docU": a Deepgram
\* response whose words hold a lone surrogate (JSON \ud800), which the utf-8
\* codec cannot encode.  "srt1", "srt2": caption text.  "empty": no bytes.
InputContents ==
    {"absent", "dir", "badutf8", "badjson", "rejected", "doc1", "doc2", "docU"}

\* what each entry may hold when the program is first started
InitialContents(n) ==
    CASE n = AJson     -> {"absent", "badutf8", "rejected", "doc1", "docU"}
      [] n = AResponse -> {"absent", "badjson", "doc2"}
      [] n = ASrt      -> {"absent", "dir", "doc1"}
      [] n = BJson     -> {"absent", "doc1"}
      [] n = BSrt      -> {"absent"}

\* the glob arguments explored
StarPattern     == <<"*">>
StarJsonPattern == <<"*", ".", "j", "s", "o", "n">>
Patterns == {StarPattern, StarJsonPattern, AJson}

RECURSIVE SeqsUpTo(_, _)
SeqsUpTo(S, n) ==
    IF n = 0 THEN {<<>>}
    ELSE LET shorter == SeqsUpTo(S, n - 1)
         IN  shorter \cup {Append(q, x) : q \in shorter, x \in S}

(***************************************************************************)
(* glob.glob                                                               *)
(***************************************************************************)
\* fnmatch: "*" matches any run of characters, anything else itself
RECURSIVE FnMatch(_, _)
FnMatch(pat, name) ==
    IF pat = <<>> THEN name = <<>>
    ELSE IF Head(pat) = "*"
         THEN \/ FnMatch(Tail(pat), name)
              \/ name # <<>> /\ FnMatch(pat, Tail(name))
    ELSE /\ name # <<>>
         /\ Head(name) = Head(pat)
         /\ FnMatch(Tail(pat), Tail(name))

\* glob.has_magic
HasMagic(pat) == \E k \in 1..Len(pat) : pat[k] = "*"

\* glob.glob(pattern): the existing entries that match, in directory order;
\* entries starting with "." only match a pattern that starts with ".".
Glob(pat, fsys, listing) ==
    SelectSeq(listing,
              LAMBDA n : /\ fsys[n] # "absent"
                         /\ IF HasMagic(pat)
                            THEN /\ FnMatch(pat, n)
                                 /\ Head(n) = "." => Head(pat) = "."
                            ELSE n = pat)

\* Variant: the File Set without repeated paths (a set, or a dict's keys,
\* in place of the list of line 16).
RECURSIVE ExpandGlobsDedup(_, _, _)
ExpandGlobsDedup(globs, fsys, listing) ==
    IF globs = <<>> THEN <<>>
    ELSE LET first == ExpandGlobsDedup(SubSeq(globs, 1, Len(globs) - 1),
                                       fsys, listing)
             seen  == {first[k] : k \in 1..Len(first)}
         IN  first \o SelectSeq(Glob(globs[Len(globs)], fsys, listing),
                                LAMBDA n : n \notin seen)

\* lines 16-18: files.extend(glob.glob(file_glob)) for each argument in turn
RECURSIVE ExpandGlobs(_, _, _)
ExpandGlobs(globs, fsys, listing) ==
    IF globs = <<>> THEN <<>>
    ELSE Glob(Head(globs), fsys, listing)
             \o ExpandGlobs(Tail(globs), fsys, listing)

(***************************************************************************)
(* One pass of the loop body, lines 21-36.                                 *)
(***************************************************************************)
\* lines 23-24: open(file, encoding="utf-8") and f.read()
ReadError(content) ==
    CASE content = "absent"  -> "FileNotFoundError"
      [] content = "dir"     -> "IsADirectoryError"
      [] content = "badutf8" -> "UnicodeDecodeError"
      [] OTHER               -> "none"

\* line 26: json.loads; caption text and the empty string are not JSON
ParseError(content) ==
    IF content \in {"badjson", "srt1", "srt2", "empty"}
    THEN "JSONDecodeError" ELSE "none"

\* lines 28-29: DeepgramConverter and srt
ConvertError(content) ==
    IF content = "rejected" THEN "ConversionError" ELSE "none"

\* lines 28-29: the captions of a response
Captions(content) ==
    CASE content = "doc1" -> "srt1"
      [] content = "doc2" -> "srt2"
      [] content = "docU" -> "srtU"
      [] OTHER            -> "empty"

\* line 36: f.write(captions) encodes the text as utf-8
EncodeError(captions) ==
    IF captions = "srtU" THEN "UnicodeEncodeError" ELSE "none"

\* the first error of lines 23-33, "none" when the write is reached
ErrorBeforeWrite(file, content) ==
    IF ReadError(content) # "none" THEN ReadError(content)
    ELSE IF ParseError(content) # "none" THEN ParseError(content)
    ELSE IF ConvertError(content) # "none" THEN ConvertError(content)
    ELSE IF OutputPath(file) = ValueError THEN "ValueError"
    ELSE "none"

\* line 35: open(output_file, "w+") creates or truncates the file; it fails,
\* changing nothing, on a directory
OpenError(fsys, out) ==
    IF out \notin DOMAIN fsys THEN "FileNotFoundError"
    ELSE IF fsys[out] = "dir" THEN "IsADirectoryError"
    ELSE "none"

\* Variant: mode "a" in place of "w+": the text is added to what the file
\* holds.
WriteFileAppend(old, captions) ==
    IF EncodeError(captions) # "none" THEN (IF old = "absent" THEN "empty" ELSE old)
    ELSE IF old \in {"absent", "empty"} THEN captions
    ELSE "mixed"

\* Variant: a file that holds captions is left as it is (the first write
\* wins).
WriteFileKeepsFirst(old, captions) ==
    IF old \in {"srt1", "srt2"} THEN old
    ELSE IF EncodeError(captions) # "none" THEN "empty" ELSE captions

\* lines 35-36: the file after open(..., "w+") and f.write(captions)
WriteFile(old, captions) ==
    IF EncodeError(captions) # "none" THEN "empty" ELSE captions

\* Variant: an output path that exists is not written again.
IterationSkipsExisting(file, fsys) ==
    LET content  == fsys[file]
        early    == ErrorBeforeWrite(file, content)
        out      == OutputPath(file)
        captions == Captions(content)
        reads    == <<<<"read", file>>>>
    IN  IF early # "none"
        THEN [err |-> early, fs |-> fsys, io |-> reads]
        ELSE IF OpenError(fsys, out) # "none"
        THEN [err |-> OpenError(fsys, out), fs |-> fsys, io |-> reads]
        ELSE IF fsys[out] # "absent"
        THEN [err |-> "none", fs |-> fsys, io |-> reads]
        ELSE [err |-> EncodeError(captions),
              fs  |-> [fsys EXCEPT ![out] = WriteFile(fsys[out], captions)],
              io  |-> reads \o <<<<"write", out>>>>]

\* Variant: the output file is opened (created or truncated) before the
\* input is read and parsed.
IterationOpensFirst(file, fsys) ==
    LET content  == fsys[file]
        early    == ErrorBeforeWrite(file, content)
        out      == OutputPath(file)
        captions == Captions(content)
        reads    == <<<<"read", file>>>>
        opened   == IF out \in DOMAIN fsys /\ fsys[out] # "dir"
                    THEN [fsys EXCEPT ![out] = "empty"] ELSE fsys
    IN  IF early # "none"
        THEN [err |-> early, fs |-> opened, io |-> reads]
        ELSE IF OpenError(fsys, out) # "none"
        THEN [err |-> OpenError(fsys, out), fs |-> fsys, io |-> reads]
        ELSE [err |-> EncodeError(captions),
              fs  |-> [fsys EXCEPT ![out] = WriteFile(fsys[out], captions)],
              io  |-> reads \o <<<<"write", out>>>>]

\* Variant: line 35 opens file, the input path, in place of output_file.
IterationOverwritesInput(file, fsys) ==
    LET content  == fsys[file]
        early    == ErrorBeforeWrite(file, content)
        captions == Captions(content)
        reads    == <<<<"read", file>>>>
    IN  IF early # "none"
        THEN [err |-> early, fs |-> fsys, io |-> reads]
        ELSE [err |-> EncodeError(captions),
              fs  |-> [fsys EXCEPT ![file] = WriteFile(fsys[file], captions)],
              io  |-> reads \o <<<<"write", file>>>>]

\* The loop body for one file: the error it raises ("none" when it does
\* not), the file system it leaves and the I/O it performed.
Iteration(file, fsys) ==
    LET content  == fsys[file]
        early    == ErrorBeforeWrite(file, content)
        out      == OutputPath(file)
        captions == Captions(content)
        reads    == <<<<"read", file>>>>
    IN  IF early # "none"
        THEN [err |-> early, fs |-> fsys, io |-> reads]
        ELSE IF OpenError(fsys, out) # "none"
        THEN [err |-> OpenError(fsys, out), fs |-> fsys, io |-> reads]
        ELSE [err |-> EncodeError(captions),
              fs  |-> [fsys EXCEPT ![out] = WriteFile(fsys[out], captions)],
              io  |-> reads \o <<<<"write", out>>>>]

(***************************************************************************)
(* State.                                                                  *)
(***************************************************************************)
VARIABLES
    argv,         \* args.file_globs
    listing,      \* the order in which the directory lists the entries it
                  \* holds or comes to hold
    fs,           \* what each entry of the directory holds
    pc,           \* "start", "glob", "loop", "exited"
    files,        \* line 16: the File Set
    i,            \* position in files of the entry the loop is at
    err,          \* the error that ended the run, "none" if none
    exit,         \* the exit status, -1 while running
    run,          \* 1: first invocation, 2: second one, same arguments
    io,           \* the reads and writes of this run, in order
    fs0,          \* fs when this run started
    before,       \* fs when the latest pass of the loop body started
    written1,     \* the entries the first run opened for writing
    file,         \* path derivation: the variable file of lines 20-33
    output_file,  \* path derivation: the variable output_file
    entry,        \* path derivation: the File Set entry being processed
    step          \* path derivation: "idle", "read", "replaced", "done", "raised"

vars == <<argv, listing, fs, pc, files, i, err, exit, run, io, fs0, before,
          written1, file, output_file, entry, step>>

mainVars == <<argv, listing, fs, pc, files, i, err, exit, run, io, fs0,
              before, written1>>

pathVars == <<file, output_file, entry, step>>

(***************************************************************************)
(* main()                                                                  *)
(***************************************************************************)
Init ==
    /\ argv \in SeqsUpTo(Patterns, MaxPatterns)
    /\ fs \in {f \in [Names -> InputContents] :
                    \A n \in Names : f[n] \in InitialContents(n)}
    /\ listing \in DirOrders(Listed(fs))
    /\ pc = "start"
    /\ files = <<>>
    /\ i = 1
    /\ err = "none"
    /\ exit = -1
    /\ run = 1
    /\ io = <<>>
    /\ fs0 = fs
    /\ before = fs
    /\ written1 = {}
    /\ file = <<>>
    /\ output_file = <<>>
    /\ entry = <<>>
    /\ step = "idle"

\* the paths an I/O log wrote to
Written(log) == {log[k][2] : k \in {j \in 1..Len(log) : log[j][1] = "write"}}

\* the process ends: status and error are set, nothing else moves
Exited(status, error) ==
    /\ pc' = "exited"
    /\ exit' = status
    /\ err' = error
    /\ written1' = IF run = 1 THEN Written(io') ELSE written1

\* Variant: nargs='*', which accepts an empty command line.
ParseArgumentsOptional ==
    /\ pc = "start"
    /\ pc' = "glob"
    /\ UNCHANGED <<exit, err, io, written1>>
    /\ UNCHANGED <<argv, listing, fs, files, i, run, fs0, before>>
    /\ UNCHANGED pathVars

\* lines 8-11 and 14: nargs='+' makes argparse exit with status 2 when no
\* glob is given
ParseArguments ==
    /\ pc = "start"
    /\ IF argv = <<>>
       THEN /\ io' = io
            /\ Exited(2, "UsageError")
       ELSE /\ pc' = "glob"
            /\ UNCHANGED <<exit, err, io, written1>>
    /\ UNCHANGED <<argv, listing, fs, files, i, run, fs0, before>>
    /\ UNCHANGED pathVars

\* lines 16-18
BuildFileSet ==
    /\ pc = "glob"
    /\ files' = ExpandGlobs(argv, fs, listing)
    /\ io' = io \o [k \in 1..Len(argv) |-> <<"glob", argv[k]>>]
    /\ i' = 1
    /\ pc' = "loop"
    /\ UNCHANGED <<argv, listing, fs, err, exit, run, fs0, before, written1>>
    /\ UNCHANGED pathVars

\* Variant: the loop body in a try/except that goes on to the next entry.
ProcessFileSkipsErrors ==
    /\ pc = "loop"
    /\ i <= Len(files)
    /\ LET r == Iteration(files[i], fs)
       IN  /\ fs' = r.fs
           /\ io' = io \o r.io
           /\ before' = fs
           /\ i' = i + 1
           /\ UNCHANGED <<pc, exit, err, written1>>
    /\ UNCHANGED <<argv, listing, files, run, fs0>>
    /\ UNCHANGED pathVars

\* lines 20-36 for the entry at position i; an exception leaves main()
ProcessFile ==
    /\ pc = "loop"
    /\ i <= Len(files)
    /\ LET r == Iteration(files[i], fs)
       IN  /\ fs' = r.fs
           /\ io' = io \o r.io
           /\ before' = fs
           /\ IF r.err # "none"
              THEN /\ Exited(1, r.err)
                   /\ i' = i
              ELSE /\ i' = i + 1
                   /\ UNCHANGED <<pc, exit, err, written1>>
    /\ UNCHANGED <<argv, listing, files, run, fs0>>
    /\ UNCHANGED pathVars

\* the loop is over: main() returns and the process exits with status 0
Return ==
    /\ pc = "loop"
    /\ i > Len(files)
    /\ io' = io
    /\ Exited(0, "none")
    /\ UNCHANGED <<argv, listing, fs, files, i, run, fs0, before>>
    /\ UNCHANGED pathVars

\* the program is started a second time with the same arguments
RunAgain ==
    /\ pc = "exited"
    /\ run = 1
    /\ run' = 2
    /\ pc' = "start"
    /\ files' = <<>>
    /\ i' = 1
    /\ err' = "none"
    /\ exit' = -1
    /\ io' = <<>>
    /\ fs0' = fs
    /\ before' = fs
    /\ UNCHANGED <<argv, listing, fs, written1>>
    /\ UNCHANGED pathVars

\* one invocation
Next ==
    \/ ParseArguments
    \/ BuildFileSet
    \/ ProcessFile
    \/ Return

Spec == Init /\ [][Next]_vars

\* two invocations, one after the other
NextTwice ==
    \/ ParseArguments
    \/ BuildFileSet
    \/ ProcessFile
    \/ Return
    \/ RunAgain

SpecTwice == Init /\ [][NextTwice]_vars

(***************************************************************************)
(* Lines 31-33 on their own: the output path of any path the loop can      *)
(* hold when it reaches line 31.                                           *)
(***************************************************************************)
PathPieces == {<<"a">>, Marker, <<".">>, <<Sep>>, <<"j">>}

RECURSIVE Concat(_)
Concat(pieces) ==
    IF pieces = <<>> THEN <<>> ELSE Head(pieces) \o Concat(Tail(pieces))

\* a path glob can return for a regular file: it has a final component,
\* which is neither "." nor ".."
IsFilePath(p) ==
    /\ p # <<>>
    /\ LET last == Split(p)[Len(Split(p))]
       IN  last \notin {<<>>, <<".">>, <<".", ".">>}

PathInputs ==
    {p \in {Concat(q) : q \in SeqsUpTo(PathPieces, MaxPieces)} : IsFilePath(p)}

InitPath ==
    /\ entry \in PathInputs
    /\ file = entry
    /\ output_file = <<>>
    /\ step = "read"
    /\ argv = <<>>
    /\ listing = <<AJson, ASrt, AResponse, BJson, BSrt>>
    /\ fs = [n \in Names |-> "absent"]
    /\ pc = "path"
    /\ files = <<>>
    /\ i = 1
    /\ err = "none"
    /\ exit = -1
    /\ run = 1
    /\ io = <<>>
    /\ fs0 = fs
    /\ before = fs
    /\ written1 = {}

\* line 31: file = file.replace("_response", "")
StripMarker ==
    /\ step = "read"
    /\ file' = Replace(file, Marker)
    /\ step' = "replaced"
    /\ UNCHANGED <<output_file, entry>>
    /\ UNCHANGED mainVars

\* line 33: output_file = Path(file).with_suffix('.srt')
ReplaceSuffix ==
    /\ step = "replaced"
    /\ output_file' = WithSuffix(file)
    /\ step' = IF WithSuffix(file) = ValueError THEN "raised" ELSE "done"
    /\ UNCHANGED <<file, entry>>
    /\ UNCHANGED mainVars

NextPath ==
    \/ StripMarker
    \/ ReplaceSuffix

SpecPath == InitPath /\ [][NextPath]_vars


(***************************************************************************)
(* Vocabulary of the properties.                                           *)
(***************************************************************************)
\* the entries of a log with a given operation, in order
Events(log, op) == SelectSeq(log, LAMBDA e : e[1] = op)

\* the paths of a log's events with a given operation, in order
PathsOf(log, op) ==
    LET ev == Events(log, op) IN [k \in 1..Len(ev) |-> ev[k][2]]

\* how often x occurs in a sequence
Count(q, x) == Cardinality({k \in 1..Len(q) : q[k] = x})

\* a run of main() is in or past its loop
InLoop == pc \in {"loop", "exited"} /\ exit # 2

\* the position of the entry the latest pass of the loop body worked on
\* (0 before the first pass)
LastIndex == IF pc = "exited" /\ exit = 1 THEN i ELSE i - 1

\* lines 31-33 for each entry of the directory, computed once
OutputTable == [n \in Names |-> OutputPath(n)]

DerivedOutput(n) == OutputTable[n]

\* the output paths derived from the entries of a File Set
Outputs(fset) == {DerivedOutput(fset[k]) : k \in 1..Len(fset)}

\* the last entry of a File Set that derives the output path out
LastWriter(fset, out) ==
    fset[CHOOSE k \in 1..Len(fset) :
             /\ DerivedOutput(fset[k]) = out
             /\ \A m \in (k + 1)..Len(fset) : DerivedOutput(fset[m]) # out]

CaptionTexts == {"srt1", "srt2"}

\* the part of a path up to and including its last "/", and the rest
DirPart(p) == SubSeq(p, 1, Len(p) - Len(Split(p)[Len(Split(p))]))
BaseName(p) == Split(p)[Len(Split(p))]

\* s with its first occurrence of old removed
RECURSIVE RemoveFirst(_, _)
RemoveFirst(s, old) ==
    IF Len(s) < Len(old) THEN s
    ELSE IF StartsWith(s, old) THEN Drop(s, Len(old))
    ELSE <<Head(s)>> \o RemoveFirst(Tail(s), old)

\* the output path as C2 describes it: the first "_response" of the
\* filename removed, the directory kept, the extension replaced
ClaimedOutputPath(p) ==
    LET base == RemoveFirst(BaseName(p), Marker)
        stem == SubSeq(base, 1, Len(base) - Len(PathSuffix(base)))
    IN  DirPart(p) \o stem \o SrtSuffix

\* a path as pathlib spells it
Normal(p) == PathStr(PathRoot(p), PathParts(p))

(***************************************************************************)
(* C2 and C3: the output path, checked under SpecPath.                     *)
(***************************************************************************)
\* C2: the output path is the input path with only the first "_response"
\* of its filename removed (directories untouched, later occurrences kept)
\* and its extension replaced by ".srt".  The code removes every
\* occurrence, anywhere in the path.
C2_OnlyFirstMarkerOfFilenameRemoved ==
    step = "done" => output_file = Normal(ClaimedOutputPath(entry))

\* C3: for every input path that reaches line 31 an output path is produced
\* and its extension is ".srt"; the step never fails.  The code raises
\* ValueError when nothing but "." components is left of the path.
C3_OutputPathAlwaysProducedWithSrt ==
    step \in {"done", "raised"} =>
        /\ step = "done"
        /\ PathSuffix(BaseName(output_file)) = SrtSuffix

(***************************************************************************)
(* C1: number of output files.                                             *)
(***************************************************************************)
\* C1 as claimed: a run without error over a File Set of N paths has
\* written exactly N output files, the derived paths being pairwise
\* distinct.
C1_ExactlyNOutputFiles ==
    (pc = "exited" /\ exit = 0) =>
        /\ Cardinality(Written(io)) = Len(files)
        /\ \A p \in Written(io) : fs[p] \in CaptionTexts

\* C1 amended: a run without error has written exactly the derived output
\* paths of the File Set, each of which exists and holds caption text;
\* their number is the number of distinct derived paths, at most N, and N
\* only when no two entries derive the same path.
C1_OneOutputPerDistinctOutputPath ==
    (pc = "exited" /\ exit = 0) =>
        /\ Written(io) = Outputs(files)
        /\ ValueError \notin Outputs(files)
        /\ Cardinality(Written(io)) <= Len(files)
        /\ \A p \in Written(io) : fs[p] \in CaptionTexts
        /\ (Cardinality(Written(io)) = Len(files)) <=>
               (\A j, k \in 1..Len(files) :
                    j # k => DerivedOutput(files[j]) # DerivedOutput(files[k]))

\* a run without error over three entries, two of which share an output
C1_Witness ==
    /\ pc = "exited" /\ exit = 0
    /\ Len(files) = 3
    /\ Cardinality(Written(io)) = 2

(***************************************************************************)
(* C4: a failed load writes nothing.                                       *)
(***************************************************************************)
\* what cannot be read as text or parsed as JSON, and the error it gives
Unloadable == {"dir", "badutf8", "badjson", "srt1", "srt2", "empty"}

LoadErrorOf(content) ==
    CASE content = "dir"     -> "IsADirectoryError"
      [] content = "badutf8" -> "UnicodeDecodeError"
      [] OTHER               -> "JSONDecodeError"

\* C4: when the entry a pass of the loop works on cannot be read, decoded or
\* parsed, the run ends in that error (exit status 1) and the pass created,
\* truncated and wrote nothing: the file system is as it was before the
\* pass, and the pass's only I/O is the read.
C4_FailedLoadLeavesFilesAlone ==
    (InLoop /\ LastIndex >= 1 /\ before[files[LastIndex]] \in Unloadable) =>
        /\ pc = "exited"
        /\ exit = 1
        /\ err = LoadErrorOf(before[files[LastIndex]])
        /\ fs = before
        /\ io[Len(io)] = <<"read", files[LastIndex]>>

\* a parse failure on an entry whose output path holds captions written by an
\* earlier pass of the same run
C4_Witness ==
    /\ pc = "exited"
    /\ err = "JSONDecodeError"
    /\ i >= 2
    /\ DerivedOutput(files[i]) \in Written(io)
    /\ fs[DerivedOutput(files[i])] \in CaptionTexts

(***************************************************************************)
(* C5: the first error aborts the batch.                                   *)
(***************************************************************************)
\* C5 as claimed: after the error at position i nothing past i was read or
\* written, the run has failed, and every output written for a position
\* before i is as it was written.
C5_EarlierOutputsStayAsWritten ==
    (pc = "exited" /\ exit = 1) =>
        /\ PathsOf(io, "read") = SubSeq(files, 1, i)
        /\ \A k \in 1..(i - 1) :
               fs[DerivedOutput(files[k])] = before[DerivedOutput(files[k])]

\* C5 amended: the first error aborts the batch: the run exits with status
\* 1 at that position, nothing past it is read or written, and every file
\* other than the failing entry's own output path is as it was before the
\* failing pass; that one file changes only when the error is raised by the
\* write itself, which leaves it empty, also when an earlier position had
\* written it.
C5_AbortKeepsAllButOwnOutput ==
    (InLoop /\ LastIndex >= 1
            /\ Iteration(files[LastIndex], before).err # "none") =>
        /\ pc = "exited"
        /\ exit = 1
        /\ i = LastIndex
        /\ err = Iteration(files[LastIndex], before).err
        /\ PathsOf(io, "read") = SubSeq(files, 1, i)
        /\ Len(PathsOf(io, "write")) <= i
        /\ \A n \in Names : n # DerivedOutput(files[i]) => fs[n] = before[n]
        /\ fs # before =>
               /\ err = "UnicodeEncodeError"
               /\ fs[DerivedOutput(files[i])] = "empty"

\* an error in the middle of a File Set, after an earlier entry was written
C5_Witness ==
    /\ pc = "exited" /\ exit = 1
    /\ 2 <= i /\ i < Len(files)
    /\ Written(io) # {}

(***************************************************************************)
(* C6: running twice.                                                      *)
(***************************************************************************)
\* C6 as claimed: after a second run with the same arguments every file is
\* what it was after the first run, also when the patterns match files the
\* first run wrote.
C6_SecondRunChangesNothing ==
    (run = 2 /\ pc = "exited") => fs = fs0

\* C6 amended: after a second run with the same arguments every file is
\* what it was after the first run whenever the second run read no file the
\* first run wrote.  The second run reads at most one file the first run
\* wrote: it ends there with a JSON parse error (exit status 1), that pass
\* changing nothing.  Only then can a file differ from what the first run
\* left, and only an output path shared by two different inputs: the second
\* run wrote it in full before it ended, so it holds the conversion of the
\* last entry processed for it, while another input that derives the same
\* path comes later in the File Set.
C6_SecondRunStopsAtFirstOwnOutput ==
    (run = 2 /\ pc = "exited") =>
        LET reads  == PathsOf(io, "read")
            prefix == SubSeq(files, 1, i - 1)
        IN  /\ (\A k \in 1..Len(reads) : reads[k] \notin written1) => fs = fs0
            /\ \A k \in 1..Len(reads) :
                   reads[k] \in written1 =>
                       /\ k = Len(reads)
                       /\ exit = 1
                       /\ err = "JSONDecodeError"
                       /\ files[i] = reads[k]
                       /\ io[Len(io)] = <<"read", reads[k]>>
                       /\ fs = before
            /\ \A n \in Names :
                   fs[n] # fs0[n] =>
                       /\ exit = 1
                       /\ files[i] \in written1
                       /\ n \in written1
                       /\ n \in Outputs(prefix)
                       /\ fs[n] \in CaptionTexts
                       /\ fs[n] = Captions(fs0[LastWriter(prefix, n)])
                       /\ \E k \in (i + 1)..Len(files) :
                              /\ files[k] # LastWriter(prefix, n)
                              /\ DerivedOutput(files[k]) = n

\* a second run that wrote two outputs again, one as the first run left it
\* and one shared output differently, and ended at a file the first run wrote
C6_Witness ==
    /\ run = 2 /\ pc = "exited" /\ exit = 1
    /\ files[i] \in written1
    /\ Cardinality(Written(io)) = 2
    /\ \E n \in Written(io) : fs[n] = fs0[n]
    /\ \E n \in Written(io) : fs[n] # fs0[n]

(***************************************************************************)
(* C7: the same input path more than once.                                 *)
(***************************************************************************)
\* C7 as claimed: when a path occurs more than once in the File Set of a
\* run without error, its output file ends up holding the conversion of
\* that input.
C7_RepeatedInputOwnsOutput ==
    (pc = "exited" /\ exit = 0) =>
        \A p \in Names :
            Count(files, p) > 1 => fs[DerivedOutput(p)] = Captions(fs0[p])

\* C7 amended: in a run without error every occurrence of a repeated path is
\* read and then written in full before the next entry is read, and its
\* output file ends up holding one conversion result, that of the last
\* entry of the File Set that derives this output path (the repeated input
\* itself unless a different input with the same output path comes later).
C7_LastWriteWins ==
    (pc = "exited" /\ exit = 0) =>
        \A p \in Names :
            Count(files, p) > 1 =>
                /\ Count(PathsOf(io, "read"), p) = Count(files, p)
                /\ \A k \in 1..Len(files) :
                       files[k] = p =>
                           /\ PathsOf(io, "read")[k] = p
                           /\ PathsOf(io, "write")[k] = DerivedOutput(p)
                /\ fs[DerivedOutput(p)] \in CaptionTexts
                /\ fs[DerivedOutput(p)] =
                       Captions(fs0[LastWriter(files, DerivedOutput(p))])

\* a path matched twice, converted twice, its output holding its conversion
C7_Witness ==
    /\ pc = "exited" /\ exit = 0
    /\ Count(files, AResponse) = 2
    /\ Count(PathsOf(io, "write"), ASrt) >= 2
    /\ fs[ASrt] = Captions(fs0[AResponse])

(***************************************************************************)
(* C8: no glob argument.                                                   *)
(***************************************************************************)
\* C8: with no glob argument the run ends in a usage error, exit status 2,
\* before any I/O: nothing is expanded, read, created or written.
C8_UsageErrorBeforeAnyIO ==
    (argv = <<>> /\ pc # "start") =>
        /\ pc = "exited"
        /\ exit = 2
        /\ err = "UsageError"
        /\ io = <<>>
        /\ files = <<>>
        /\ fs = fs0

\* the usage error, in a directory that holds a file every pattern of the
\* model would match
C8_Witness ==
    /\ argv = <<>>
    /\ pc = "exited"
    /\ fs[AJson] = "doc1"

(***************************************************************************)
(* C9: the File Set is fixed before the loop and processed in order.       *)
(***************************************************************************)
\* the entries a pattern matches in a file system
MatchTable == [pat \in Patterns |-> {n \in Names : FnMatch(pat, n)}]

Matching(pat, fsys) == {n \in MatchTable[pat] : fsys[n] # "absent"}

\* where the matches of pattern k start in the File Set (0-based)
RECURSIVE SegmentStart(_)
SegmentStart(k) ==
    IF k <= 1 THEN 0
    ELSE SegmentStart(k - 1) + Cardinality(Matching(argv[k - 1], fs0))

\* the position of an entry in the directory's order
ListingPos(n) == CHOOSE k \in 1..Len(listing) : listing[k] = n

\* the I/O of the loop
LoopIO == SelectSeq(io, LAMBDA e : e[1] # "glob")

\* C9: the File Set is the concatenation, in argument order, of each
\* pattern's matches in the file system as it was when the run started,
\* each pattern's matches in directory order, nothing sorted across
\* patterns and nothing dropped; it never changes afterwards.  The loop
\* reads entry 1, writes its output, reads entry 2, ..., at most once per
\* entry.
C9_FileSetFixedAndProcessedInOrder ==
    InLoop =>
        /\ PathsOf(io, "glob") = argv
        /\ Len(files) = SegmentStart(Len(argv) + 1)
        /\ \A k \in 1..Len(argv) :
               LET seg == SubSeq(files, SegmentStart(k) + 1, SegmentStart(k + 1))
               IN  /\ {seg[m] : m \in 1..Len(seg)} = Matching(argv[k], fs0)
                   /\ \A a, b \in 1..Len(seg) :
                          a < b => ListingPos(seg[a]) < ListingPos(seg[b])
        /\ i <= Len(files) + 1
        /\ LastIndex <= Len(files)
        /\ \A k \in 1..(i - 1) :
               /\ LoopIO[2 * k - 1] = <<"read", files[k]>>
               /\ LoopIO[2 * k] = <<"write", DerivedOutput(files[k])>>
        /\ IF pc = "exited" /\ exit = 1
           THEN /\ LoopIO[2 * i - 1] = <<"read", files[i]>>
                /\ Len(LoopIO) \in {2 * i - 1, 2 * i}
                /\ Len(LoopIO) = 2 * i =>
                       LoopIO[2 * i] = <<"write", DerivedOutput(files[i])>>
           ELSE Len(LoopIO) = 2 * (i - 1)

\* a finished run whose first pattern matches a file the run created, with a
\* path matched twice
C9_Witness ==
    /\ pc = "exited" /\ exit = 0 /\ run = 1
    /\ Len(files) >= 3
    /\ \E n \in Names : Count(files, n) = 2
    /\ \E n \in Written(io) : fs0[n] = "absent" /\ FnMatch(argv[1], n)

(***************************************************************************)
(* C10: what a write changes.                                              *)
(***************************************************************************)
\* C10 as claimed: the writes of a run leave the content of every entry of
\* the File Set as it was.
C10_InputsNeverChange ==
    InLoop => \A k \in 1..Len(files) : fs[files[k]] = fs0[files[k]]

\* C10 amended: a pass of the loop changes no file other than the output
\* path derived from its entry; so every entry of the File Set that is not
\* the output path of an entry processed so far holds what it held when the
\* run started, and is read the same whatever was processed before it.
C10_OnlyDerivedOutputsChange ==
    InLoop =>
        /\ \A n \in Names :
               n \notin Outputs(SubSeq(files, 1, LastIndex)) => fs[n] = fs0[n]
        /\ \A n \in Names :
               (LastIndex >= 1 /\ n # DerivedOutput(files[LastIndex]))
                   => fs[n] = before[n]

\* two entries written, the File Set holding none of the output paths
C10_Witness ==
    /\ pc = "exited" /\ exit = 0
    /\ Cardinality(Written(io)) = 2
    /\ \A k \in 1..Len(files) : files[k] \notin Outputs(files)
    /\ \A k \in 1..Len(files) : fs[files[k]] = fs0[files[k]]

=============================================================================
